---- MODULE Spec2Model ----
(***************************************************************************)
(* Live room session logic of shojbahmed330/prithibi.                      *)
(*                                                                         *)
(* Four screens drive a media transport client from a room-state listener: *)
(*   "moderated"  src/components/LiveRoomScreen.tsx:113                     *)
(*   "video"      src/components/LiveVideoRoomScreen.tsx:99                 *)
(*   "basic"      src/components/LiveVideoRoomScreen.tsx:348                *)
(*   "mapped"     src/components/LiveVideoRoomScreen.tsx:697                *)
(* and two screens have the room-state listener and no transport:          *)
(*   "chat"       src/unnamed/part_000:47                                   *)
(*   "hostchat"   src/unnamed/part_001:92                                   *)
(* One behaviour is one mounted screen.  Every handler is one action; an   *)
(* async function is a task whose program counter names the await it is    *)
(* suspended at, and each completion of an awaited call is one action.     *)
(* React effects that a state change triggers run inside the action that   *)
(* made the change.  A task that has settled, a client that is left and    *)
(* no longer current, and a closed track that nothing refers to are        *)
(* dropped from the state.  The camera and the video screen's mute button  *)
(* are outside the model.                                                  *)
(*                                                                         *)
(* Spec is the session with every outcome of the services and the user's   *)
(* mute and leave buttons, SpecHealthy the session on healthy services.    *)
(* SpecVolume adds the transport's volume batches to the healthy session,  *)
(* SpecRemote the remote participants' events to that.  SpecModeration is  *)
(* the healthy session of every screen with roles, with the participant    *)
(* modal, the raised hands and the leave buttons.  SpecHash and            *)
(* SpecRebuild apply stringToNumericUid and the rebuild of the reverse      *)
(* table to inputs drawn by their initial states, SpecCatch the catch      *)
(* block of the video screen's joinAndPublish to the errors it can be      *)
(* given, and SpecToken the token endpoint of src/api/proxy.ts to its      *)
(* requests.  SpecRace is the healthy session of the two screens with a    *)
(* publishAudio effect, with room for two invocations of it at once.       *)
(***************************************************************************)
EXTENDS Integers, Sequences, FiniteSets, TLC

\* ---------------------------------------------------------------- bounds
MaxRuns == 1      \* transport clients alive at once (the current one, and
                  \* earlier ones whose task is unsettled or that are joined)
MaxPub == 1       \* publishAudio() invocations in flight at once
MaxTracks == 1    \* local tracks alive at once (open, or still referred to)
MaxPubRace == 2   \* the same two, where overlapping publishAudio() invocations
MaxTracksRace == 2    \* are the subject

\* ------------------------------------------------------------ identities
\* A participant identity is the sequence of UTF-16 code units of its id.
Me == <<109, 101>>       \* "me", currentUser.id
Peer == <<117, 50>>      \* "u2"
Third == <<117, 51>>     \* "u3"
NoId == <<>>             \* null

Variants == {"moderated", "video", "basic", "mapped"}

\* The two text-only room screens, which drive no transport client:
\* "chat" (src/unnamed/part_000) and "hostchat" (src/unnamed/part_001).
ChatVariants == {"chat", "hostchat"}

\* ------------------------------------------------- stringToNumericUid
\* A 32-bit word is kept as <<high 16 bits, low 16 bits>> so that no
\* intermediate product exceeds 32 bits.
HashStep(h, c) ==
    LET lo == h[2] * 31 + c
        hi == h[1] * 31 + (lo \div 65536)
    IN  <<hi % 65536, lo % 65536>>

RECURSIVE HashFrom(_, _, _)
HashFrom(h, uid, i) ==
    IF i > Len(uid) THEN h ELSE HashFrom(HashStep(h, uid[i]), uid, i + 1)

\* A number n of -2^31..2^31 is kept as <<hi, lo>> with n = hi * 65536 + lo
\* and lo in 0..65535.  The signed reading of a word:
Int32(h) == IF h[1] < 32768 THEN h ELSE <<h[1] - 65536, h[2]>>
\* Math.abs of the signed reading of the word; 2^31 is <<32768, 0>>.
MathAbs(h) ==
    IF h[1] < 32768 THEN h
    ELSE IF h[2] = 0 THEN <<65536 - h[1], 0>>
    ELSE <<65535 - h[1], 65536 - h[2]>>

stringToNumericUid(uid) == MathAbs(HashFrom(<<0, 0>>, uid, 1))

\* The uid a participant's client joined the channel with: the numeric uid
\* in the video and mapped screens, the identity string in the other two.
TransportUid(v, id) ==
    IF v \in {"video", "mapped"} THEN stringToNumericUid(id) ELSE id

\* The credential the token service issues for a uid.
TokenFor(uid) == [uid |-> uid]
NoToken == [uid |-> <<>>]

\* ------------------------------------------------------- room snapshots
NoRoom ==
    [ver |-> 0, host |-> NoId, speakers |-> <<>>, listeners |-> <<>>,
     participants |-> <<>>, coHosts |-> {}, raisedHands |-> {},
     mutedSpeakers |-> {}, kickedUserIds |-> {}]

\* A LiveAudioRoom document.
Snap(v, h, spk, lst, co, rh, mu, kk) ==
    [ver |-> v, host |-> h, speakers |-> spk, listeners |-> lst,
     participants |-> <<>>, coHosts |-> co, raisedHands |-> rh,
     mutedSpeakers |-> mu, kickedUserIds |-> kk]

\* A LiveVideoRoom document.
VideoSnap(v, h, ps) == [NoRoom EXCEPT !.ver = v, !.host = h, !.participants = ps]

\* The successive versions of the room document in the session scenarios, for
\* a room hosted by h; ver is the store's logical version of the document.
\* A video room gains a participant.
\* As a guest the local user listens, is invited to speak, is muted by a
\* moderator and is removed; as the host the local user speaks throughout.
RoomDocs(v, h) ==
    IF v = "video"
    THEN { VideoSnap(1, h, <<Peer, Me>>), VideoSnap(2, h, <<Peer, Me, Third>>) }
    ELSE IF h = Me
    THEN { Snap(1, Me, <<Me>>, <<Peer>>, {}, {}, {}, {}),
           Snap(2, Me, <<Me, Peer>>, <<>>, {}, {}, {}, {}) }
    ELSE { Snap(1, Peer, <<Peer>>, <<Me>>, {}, {}, {}, {}),
           Snap(2, Peer, <<Peer, Me>>, <<>>, {}, {}, {}, {}),
           Snap(3, Peer, <<Peer, Me>>, <<>>, {}, {}, {Me}, {}),
           Snap(4, Peer, <<Peer>>, <<Me>>, {}, {}, {}, {Me}) }

InSeq(x, s) == \E i \in 1..Len(s) : s[i] = x

\* room?.speakers.some(s => s.id === currentUser.id): undefined while room is null.
IsSpeaker(r) ==
    IF r = NoRoom THEN "undefined"
    ELSE IF InSeq(Me, r.speakers) THEN "true" ELSE "false"

IsHost(r) == r # NoRoom /\ r.host = Me

\* newMap.set(stringToNumericUid(p.id), p.id) over the listed users, in order.
RECURSIVE SetAll(_, _, _)
SetAll(m, ids, i) ==
    IF i > Len(ids) THEN m
    ELSE IF ids[i] = NoId THEN SetAll(m, ids, i + 1)      \* if (p)
    ELSE LET k == stringToNumericUid(ids[i])
         IN  SetAll([u \in DOMAIN m \cup {k} |-> IF u = k THEN ids[i] ELSE m[u]],
                    ids, i + 1)

EmptyMap == [u \in {} |-> NoId]

RebuildWithoutHost(v, r) ==
    IF v = "video" THEN SetAll(EmptyMap, r.participants, 1)
    ELSE SetAll(EmptyMap, r.speakers \o r.listeners, 1)
RebuildUidMap(v, r) ==
    IF v = "video" THEN SetAll(EmptyMap, r.participants, 1)
    ELSE SetAll(EmptyMap, r.speakers \o r.listeners \o <<r.host>>, 1)

\* ---------------------------------------------------------------- state
VARIABLES
    variant,               \* which screen is mounted
    appId,                 \* AGORA_APP_ID is configured
    roomHost,              \* the identity that created the room
    mounted,               \* "init", "mounted", "unmounted"
    room, isLoading, isMuted, activeSpeakerId, uidMap, handRaisedOptimistic,
    localAudioTrack,       \* localAudioTrack.current: 0 is null, else a track
    localVideoTrack,       \* localVideoTrack.current
    runs,                  \* the transport clients, oldest first, each with the
                           \* joinAgora / joinAndPublish task of its effect run;
                           \* the last one is agoraClient.current
    pubTasks,              \* the publishAudio() invocations in flight
    tracks,                \* the local tracks
    last,                  \* what the last handler did (calls, message, exit)
    hist,                  \* what has happened so far
    calc,                  \* a pure function under study: its argument and
                           \* what it returned
    selectedParticipant,   \* the user whose action modal is open, NoId if none
    cmdsInFlight,          \* moderation commands sent and not yet settled
    remoteUsers            \* remoteUsers, the state of the video screen

vars == <<variant, appId, roomHost, mounted, room, isLoading, isMuted,
          activeSpeakerId, uidMap, handRaisedOptimistic, localAudioTrack,
          localVideoTrack, runs, pubTasks, tracks, last, hist, calc,
          selectedParticipant, cmdsInFlight, remoteUsers>>

modal == <<selectedParticipant, cmdsInFlight>>

view == <<activeSpeakerId, calc, modal, remoteUsers>>

screenState == <<variant, appId, roomHost, mounted, room, isLoading, isMuted,
                 uidMap, handRaisedOptimistic, view>>

\* A volume sample of the transport; NoSample is the reducer's { level: 0 }.
NoSample == [uid |-> NoId, level |-> 0]

NoStep ==
    [ev |-> "none", ok |-> TRUE, err |-> "", kicked |-> FALSE, same |-> FALSE,
     null |-> FALSE, calls |-> {}, cmds |-> {}, msg |-> "", exit |-> FALSE,
     empty |-> FALSE, maxLevel |-> 0, top |-> NoSample, table |-> EmptyMap,
     target |-> NoId, seq |-> <<>>, uid |-> NoId, token |-> NoToken,
     mediaType |-> ""]

NoHist == [ended |-> FALSE, tokenFailed |-> FALSE]

NoError == [name |-> "", code |-> "", message |-> ""]

\* A query parameter as searchParams.get returns it: null when the parameter
\* is absent, else its text, a sequence of code units.
NoParam == [present |-> FALSE, text |-> <<>>]
Param(text) == [present |-> TRUE, text |-> text]

\* A request to the token endpoint with the environment it runs in, and the
\* response of the endpoint.
NoRequest ==
    [handler |-> "", appId |-> FALSE, appCertificate |-> FALSE,
     channelName |-> NoParam, uid |-> NoParam]
NoResponse == [status |-> 0, rtcToken |-> FALSE, uid |-> 0, error |-> ""]

NoCalc ==
    [op |-> "none", uid |-> NoId, out |-> <<0, 0>>, again |-> <<0, 0>>,
     doc |-> NoRoom, table |-> EmptyMap, error |-> NoError, cause |-> "",
     text |-> "", request |-> NoRequest, response |-> NoResponse]

\* uid: the uid the task asked the token for;
\* remote: client.remoteUsers, the remote users the transport lists;
\* subs: the client.subscribe calls of the user-published handler in flight;
\* listening: the volume-indicator handler is registered on the client;
\* uidMap: the uidMap of the render whose effect created the client, which is
\* the one that handler closed over.
NewRun ==
    [pc |-> "storeJoin", conn |-> "DISCONNECTED", aborted |-> FALSE, pubs |-> {},
     isSpeaker |-> "undefined", isMuted |-> FALSE, track |-> 0, valid |-> FALSE,
     listening |-> FALSE, uidMap |-> EmptyMap, remote |-> {}, uid |-> NoId,
     subs |-> {}]

FreeTrack == [state |-> "free", muted |-> FALSE]
NewTrack == [state |-> "open", muted |-> FALSE]
ClosedTrack == [state |-> "closed", muted |-> FALSE]

Init ==
    /\ variant \in Variants
    /\ appId \in BOOLEAN
    /\ roomHost \in {Me, Peer}
    /\ mounted = "init"
    /\ room = NoRoom
    /\ isLoading = TRUE
    /\ isMuted = (variant = "basic")
    /\ activeSpeakerId = NoId
    /\ uidMap = EmptyMap
    /\ handRaisedOptimistic = FALSE
    /\ localAudioTrack = 0
    /\ localVideoTrack = 0
    /\ runs = <<>>
    /\ pubTasks = <<>>
    /\ tracks = [t \in 1..MaxTracks |-> FreeTrack]
    /\ last = NoStep
    /\ hist = NoHist
    /\ calc = NoCalc
    /\ selectedParticipant = NoId
    /\ remoteUsers = {}
    /\ cmdsInFlight = 0

\* ------------------------------------------------ transport and tracks
\* track.stop(); track.close()
CloseT(ts, t) == IF t = 0 THEN ts ELSE [ts EXCEPT ![t] = ClosedTrack]

\* track.setMuted(m)
MuteT(ts, t, m) == IF t = 0 THEN ts ELSE [ts EXCEPT ![t].muted = m]

\* client.leave(): the session is left, its published tracks are dropped, a
\* join still in progress is aborted (its promise rejects) and so are the
\* subscribe calls in progress, whose handlers end there.
LeaveC(rs, r) ==
    [rs EXCEPT ![r].conn = "DISCONNECTED", ![r].pubs = {}, ![r].remote = {},
               ![r].subs = {},
               ![r].aborted = (rs[r].conn = "CONNECTING") \/ rs[r].aborted]

\* agoraClient.current: the client of the latest lifecycle run, 0 when none.
CurClient == Len(runs)

Connected(rs, r) == r # 0 /\ rs[r].conn = "CONNECTED"

\* The transport accepts publish only on a joined session, for an open track.
CanPublish(rs, ts, r, t) == Connected(rs, r) /\ ts[t].state = "open"

AnyJoined == \E r \in 1..Len(runs) : runs[r].conn = "CONNECTED"

\* The lifecycle effect returned a cleanup function (it did not take the
\* early return of the app-id check).
HasCleanup == variant \in {"moderated", "mapped"} \cup ChatVariants \/ appId

\* The cleanup of the lifecycle effect: stop and close the local tracks the
\* refs hold, leave the client of that run.
CleanupTracks(ts) ==
    CloseT(CloseT(ts, localAudioTrack), IF variant = "video" THEN localVideoTrack ELSE 0)

\* The video and basic screens also take their handlers off the client.
CleanupRuns(rs) ==
    IF Len(rs) = 0 THEN rs
    ELSE [LeaveC(rs, Len(rs)) EXCEPT
            ![Len(rs)].listening = @ /\ variant \in {"moderated", "mapped"}]

\* A settled task keeps only what it did to its client.
RunDone(run) == [run EXCEPT !.pc = "done", !.isSpeaker = "undefined",
                            !.isMuted = FALSE, !.track = 0, !.valid = FALSE,
                            !.uid = NoId]

\* Earlier clients that are left and whose task has settled are unreachable.
Settle(rs) ==
    LET keep(i) == i = Len(rs) \/ rs[i].pc # "done" \/ rs[i].conn # "DISCONNECTED"
        idx == { i \in 1..Len(rs) : keep(i) }
        nth(n) == CHOOSE i \in idx : Cardinality({ j \in idx : j < i }) = n - 1
    IN  [n \in 1..Cardinality(idx) |-> rs[nth(n)]]

RemoveAt(q, k) == [n \in 1..(Len(q) - 1) |-> IF n < k THEN q[n] ELSE q[n + 1]]

\* A closed track that no ref, task or client refers to is unreachable.
Sweep(ts, lat, lvt, rs, pts) ==
    LET refs == {lat, lvt} \cup { rs[r].track : r \in 1..Len(rs) }
                \cup UNION { rs[r].pubs : r \in 1..Len(rs) }
                \cup { pts[k].track : k \in 1..Len(pts) }
    IN  [t \in DOMAIN ts |->
            IF ts[t].state = "closed" /\ t \notin refs THEN FreeTrack ELSE ts[t]]

\* The tracks once the refs a new track is about to replace are let go.
Released(lat, lvt) == Sweep(tracks, lat, lvt, runs, pubTasks)

HasFreeTrack(ts) == \E t \in DOMAIN ts : ts[t].state = "free"
FreshTrack(ts) == CHOOSE t \in DOMAIN ts :
                      /\ ts[t].state = "free"
                      /\ \A u \in 1..(t - 1) : ts[u].state # "free"

\* publishAudio() invocations in flight at once: a behaviour that starts with
\* the larger pool of track slots explores the larger number.
PubLimit == IF DOMAIN tracks = 1..MaxTracks THEN MaxPub ELSE MaxPubRace

\* The new values of the clients, tasks, refs and tracks after a handler.
Commit(rs, pts, ts, lat, lvt) ==
    /\ runs' = Settle(rs)
    /\ pubTasks' = pts
    /\ localAudioTrack' = lat
    /\ localVideoTrack' = lvt
    /\ tracks' = Sweep(ts, lat, lvt, Settle(rs), pts)

media == <<localAudioTrack, localVideoTrack, runs, pubTasks, tracks>>

\* The body of the publishAudio effect up to its first await.
PublishAudioEffect(spk, lat, muted, pts, rs) ==
    IF spk = "true" /\ lat = 0
    THEN [pts |-> Append(pts, [pc |-> "create", track |-> 0, muted |-> muted,
                               valid |-> FALSE]),
          calls |-> {"createTrack"}]
    ELSE IF spk # "true" /\ lat # 0
    THEN [pts |-> Append(pts, [pc |-> "unpublish", track |-> lat, muted |-> FALSE,
                               valid |-> FALSE]),
          calls |-> {"unpublish"}]
    ELSE [pts |-> pts, calls |-> {}]

\* --------------------------------------------------------------- mount
\* The effects of the first render.
Mount ==
    /\ mounted = "init"
    /\ mounted' = "mounted"
    /\ isLoading' = TRUE
    /\ IF variant \in ChatVariants
       THEN /\ runs' = runs
            /\ last' = [NoStep EXCEPT !.ev = "mount"]
       ELSE IF variant \in {"moderated", "mapped"}
       THEN /\ runs' = <<[NewRun EXCEPT !.pc = "token", !.listening = TRUE,
                                        !.uidMap = uidMap,
                                        !.uid = TransportUid(variant, Me)]>>
            /\ last' = [NoStep EXCEPT !.ev = "mount", !.calls = {"token"},
                                      !.cmds = {"joinRoom"},
                                      !.uid = TransportUid(variant, Me)]
       ELSE IF ~appId
       THEN /\ runs' = runs
            /\ last' = [NoStep EXCEPT !.ev = "mount", !.msg = "appId", !.exit = TRUE]
       ELSE /\ runs' = <<[NewRun EXCEPT !.isSpeaker = IsSpeaker(room),
                                        !.isMuted = variant = "basic" /\ isMuted,
                                        !.uidMap = uidMap]>>
            /\ last' = [NoStep EXCEPT !.ev = "mount", !.cmds = {"joinRoom"}]
    /\ UNCHANGED <<variant, appId, roomHost, room, isMuted, uidMap,
                   handRaisedOptimistic, localAudioTrack, localVideoTrack,
                   pubTasks, tracks, hist, view>>

\* ------------------------------------------------ room-state listener
\* The listenToAudioRoom / listenToVideoRoom callback, and the effects the
\* state it sets triggers.
DeliverSnapshot(snap) ==
    /\ mounted = "mounted"
    /\ hist.ended => snap = NoRoom      \* a deleted room does not come back
    /\ LET listed == snap # NoRoom /\ Me \in snap.kickedUserIds
           kickedOut == variant \in {"moderated", "mapped"} /\ listed
           applied == snap # NoRoom /\ ~kickedOut
           newRoom == IF applied THEN snap ELSE room
           spkChanged == IsSpeaker(newRoom) # IsSpeaker(room)
           rerun == \/ variant = "video" /\ applied
                    \/ variant = "basic" /\ spkChanged
           restart == rerun /\ appId
           pubEff == IF variant \in {"moderated", "mapped"} /\ spkChanged
                     THEN PublishAudioEffect(IsSpeaker(newRoom), localAudioTrack,
                                             isMuted, pubTasks, runs)
                     ELSE [pts |-> pubTasks, calls |-> {}]
           goBack == kickedOut \/ snap = NoRoom \/ (rerun /\ ~appId)
           message == IF kickedOut THEN "removed"
                      ELSE IF snap = NoRoom
                      THEN (IF variant \in {"moderated", "mapped"} \cup ChatVariants
                            THEN "ended" ELSE "")
                      ELSE IF rerun /\ ~appId THEN "appId" ELSE ""
           newMap == IF applied /\ variant \in {"video", "mapped"}
                     THEN RebuildUidMap(variant, snap) ELSE uidMap
           rs == IF restart
                 THEN Append(Settle(CleanupRuns(runs)),
                             [NewRun EXCEPT !.isSpeaker = IsSpeaker(newRoom),
                                            !.isMuted = variant = "basic" /\ isMuted,
                                            !.uidMap = newMap])
                 ELSE runs
       IN  /\ Len(Settle(rs)) <= MaxRuns
           /\ Len(pubEff.pts) <= PubLimit
           /\ room' = newRoom
           /\ isLoading' = IF kickedOut THEN isLoading ELSE FALSE
           /\ uidMap' = newMap
           /\ handRaisedOptimistic' =
                  IF variant = "moderated" /\ applied /\ Me \notin snap.raisedHands
                  THEN FALSE ELSE handRaisedOptimistic
           /\ Commit(rs, pubEff.pts,
                     IF restart THEN CleanupTracks(tracks) ELSE tracks,
                     localAudioTrack, localVideoTrack)
           /\ last' = [NoStep EXCEPT
                         !.ev = "snapshot", !.kicked = listed,
                         !.same = (snap # NoRoom /\ snap = room),
                         !.null = (snap = NoRoom),
                         !.calls = pubEff.calls \cup (IF restart THEN {"leave"} ELSE {}),
                         !.cmds = IF restart THEN {"leaveRoom", "joinRoom"} ELSE {},
                         !.msg = message, !.exit = goBack]
           /\ hist' = [hist EXCEPT !.ended = @ \/ snap = NoRoom]
    /\ UNCHANGED <<variant, appId, roomHost, mounted, isMuted, view>>

\* ------------------------------------------------------------- unmount
\* The calls of the cleanup functions, in the order they are made: the
\* cleanup of the lifecycle effect, then that of the listener effect where
\* the screen keeps the two apart.  No cleanup calls unpublish.
CleanupSeq ==
    LET stopAudio == IF localAudioTrack # 0 THEN <<"stop", "close">> ELSE <<>>
        stopVideo == IF variant = "video" /\ localVideoTrack # 0
                     THEN <<"stop", "close">> ELSE <<>>
    IN  IF variant \in ChatVariants THEN <<"unsubscribe", "leaveRoom">>
        ELSE IF variant \in {"moderated", "mapped"}
        THEN <<"unsubscribe", "leaveRoom">> \o stopAudio \o <<"leave">>
        ELSE IF HasCleanup
        THEN stopAudio \o stopVideo \o <<"leave", "leaveRoom", "unsubscribe">>
        ELSE <<"unsubscribe">>

\* The parent removes the screen (after onGoBack, or on its own navigation):
\* every effect's cleanup runs.
Unmount ==
    /\ mounted = "mounted"
    /\ mounted' = "unmounted"
    /\ IF HasCleanup
       THEN Commit(CleanupRuns(runs), pubTasks, CleanupTracks(tracks),
                   localAudioTrack, localVideoTrack)
       ELSE UNCHANGED media
    /\ last' = [NoStep EXCEPT !.ev = "unmount",
                              !.calls = IF HasCleanup /\ variant \notin ChatVariants
                                        THEN {"leave"} ELSE {},
                              !.cmds = IF HasCleanup THEN {"leaveRoom"} ELSE {},
                              !.seq = CleanupSeq]
    /\ UNCHANGED <<variant, appId, roomHost, room, isLoading, isMuted, uidMap,
                   handRaisedOptimistic, hist, view>>

\* ------------------------------------------------------ the join task
\* geminiService.joinLiveVideoRoom(...).then(joinAndPublish): the handlers are
\* registered and the token is requested.
StoreJoinDone(r) ==
    /\ r \in 1..Len(runs)
    /\ runs[r].pc = "storeJoin"
    /\ runs' = [runs EXCEPT ![r].pc = "token", ![r].listening = TRUE,
                            ![r].uid = TransportUid(variant, Me)]
    /\ last' = [NoStep EXCEPT !.ev = "storeJoinDone", !.calls = {"token"},
                              !.uid = TransportUid(variant, Me)]
    /\ UNCHANGED <<screenState, localAudioTrack, localVideoTrack, pubTasks, tracks, hist>>

\* if (!token) { ... return / throw }: the join is reached only with a token.
ProceedsToJoin(token) == token

\* The message of the failure path of the join task.
TokenMsg == IF variant \in {"moderated", "mapped"} THEN "token"
            ELSE IF variant = "video" THEN "start" ELSE "connect"

\* The classification of the video screen's catch block.
Classify(err) == IF err = "notfound" THEN "notFound"
                 ELSE IF err = "denied" THEN "denied" ELSE "start"

\* getAgoraToken resolved, with a token or without one.
TokenDone(r, token) ==
    /\ r \in 1..Len(runs)
    /\ runs[r].pc = "token"
    /\ IF ProceedsToJoin(token)
       THEN /\ Commit([runs EXCEPT ![r].pc = "join", ![r].conn = "CONNECTING",
                                   ![r].aborted = FALSE],
                      pubTasks, tracks, localAudioTrack, localVideoTrack)
            /\ last' = [NoStep EXCEPT !.ev = "tokenDone", !.ok = token,
                                      !.calls = {"join"},
                                      !.uid = TransportUid(variant, Me),
                                      !.token = TokenFor(runs[r].uid)]
            /\ hist' = [hist EXCEPT !.tokenFailed = @ \/ ~token]
       ELSE /\ Commit([runs EXCEPT ![r] = RunDone(@)],
                      pubTasks, tracks, localAudioTrack, localVideoTrack)
            /\ last' = [NoStep EXCEPT !.ev = "tokenDone", !.ok = FALSE,
                                      !.msg = TokenMsg, !.exit = TRUE]
            /\ hist' = [hist EXCEPT !.tokenFailed = TRUE]
    /\ UNCHANGED screenState

JoinResults == {"ok", "UID_CONFLICT", "other"}

\* The transport lets a join succeed: it was not aborted by leave() and the
\* application id is a real one.
JoinCanSucceed(r) == ~runs[r].aborted /\ appId

\* The join task has a handler for a rejected join.
JoinFailureHandled == variant # "mapped"

JoinMsg(res) ==
    IF variant = "moderated"
    THEN (IF res = "UID_CONFLICT" THEN "uidConflict" ELSE "connect")
    ELSE IF variant = "video" THEN "start" ELSE "connect"

\* client.join settled.
JoinDone(r, res) ==
    /\ r \in 1..Len(runs)
    /\ runs[r].pc = "join"
    /\ res = "ok" => JoinCanSucceed(r)
    /\ IF res = "ok"
       THEN /\ Commit([runs EXCEPT
                         ![r] = IF variant = "video"
                                   \/ (variant = "basic" /\ runs[r].isSpeaker = "true")
                                THEN [@ EXCEPT !.conn = "CONNECTED", !.pc = "tracks"]
                                ELSE [RunDone(@) EXCEPT !.conn = "CONNECTED"]],
                      pubTasks, tracks, localAudioTrack, localVideoTrack)
            /\ last' = [NoStep EXCEPT
                          !.ev = "joinDone",
                          !.calls = IF variant = "video" THEN {"createTracks"}
                                    ELSE IF variant = "basic" /\ runs[r].isSpeaker = "true"
                                    THEN {"createTrack"} ELSE {}]
       ELSE /\ Commit([runs EXCEPT ![r] = [RunDone(@) EXCEPT !.conn = "DISCONNECTED",
                                                              !.aborted = FALSE]],
                      pubTasks, tracks, localAudioTrack, localVideoTrack)
            /\ last' = [NoStep EXCEPT
                          !.ev = "joinDone", !.ok = FALSE, !.err = res,
                          !.msg = IF JoinFailureHandled THEN JoinMsg(res) ELSE "",
                          !.exit = JoinFailureHandled]
    /\ UNCHANGED <<screenState, hist>>

DeviceResults == {"ok", "notfound", "denied", "other"}

\* createMicrophoneAndCameraTracks / createMicrophoneAudioTrack of the join
\* task settled ("video", "basic").
TracksDone(r, res) ==
    /\ r \in 1..Len(runs)
    /\ runs[r].pc = "tracks"
    /\ res = "ok" => HasFreeTrack(Released(0, IF variant = "video" THEN 0 ELSE localVideoTrack))
    /\ IF res = "ok"
       THEN LET ts0 == Released(0, IF variant = "video" THEN 0 ELSE localVideoTrack)
                t == FreshTrack(ts0)
                ts == [ts0 EXCEPT ![t] = NewTrack]
            IN  /\ Commit([runs EXCEPT
                             ![r].track = t,
                             ![r].pc = IF variant = "video" THEN "publish" ELSE "setMuted",
                             ![r].valid = variant = "video" /\ CanPublish(runs, ts, r, t)],
                          pubTasks, ts, t,
                          IF variant = "video" THEN t ELSE localVideoTrack)
                /\ last' = [NoStep EXCEPT
                              !.ev = "tracksDone",
                              !.calls = IF variant = "video" THEN {"publish"} ELSE {}]
       ELSE /\ Commit([runs EXCEPT ![r] = RunDone(@)],
                      pubTasks, tracks, localAudioTrack, localVideoTrack)
            /\ last' = [NoStep EXCEPT
                          !.ev = "tracksDone", !.ok = FALSE, !.err = res,
                          !.msg = IF variant = "video" THEN Classify(res) ELSE "connect",
                          !.exit = TRUE]
    /\ UNCHANGED <<screenState, hist>>

\* await audioTrack.setMuted(isMuted) of the join task settled ("basic").
SetMutedDone(r) ==
    /\ r \in 1..Len(runs)
    /\ runs[r].pc = "setMuted"
    /\ LET ts == MuteT(tracks, runs[r].track, runs[r].isMuted)
       IN  Commit([runs EXCEPT ![r].pc = "publish",
                               ![r].valid = CanPublish(runs, ts, r, runs[r].track)],
                  pubTasks, ts, localAudioTrack, localVideoTrack)
    /\ last' = [NoStep EXCEPT !.ev = "setMutedDone", !.calls = {"publish"}]
    /\ UNCHANGED <<screenState, hist>>

\* The transport lets the join task's publish succeed: it was called on a
\* joined session that is still joined.
PublishCanSucceed(r) == runs[r].valid /\ CanPublish(runs, tracks, r, runs[r].track)

\* client.publish of the join task settled.
PublishDone(r, ok) ==
    /\ r \in 1..Len(runs)
    /\ runs[r].pc = "publish"
    /\ ok => PublishCanSucceed(r)
    /\ IF ok
       THEN /\ Commit([runs EXCEPT ![r] = [RunDone(@) EXCEPT
                                             !.pubs = @ \cup {runs[r].track}]],
                      pubTasks, tracks, localAudioTrack, localVideoTrack)
            /\ last' = [NoStep EXCEPT !.ev = "publishDone"]
       ELSE /\ Commit([runs EXCEPT ![r] = RunDone(@)],
                      pubTasks, tracks, localAudioTrack, localVideoTrack)
            /\ last' = [NoStep EXCEPT
                          !.ev = "publishDone", !.ok = FALSE,
                          !.msg = IF variant = "video" THEN "start" ELSE "connect",
                          !.exit = TRUE]
    /\ UNCHANGED <<screenState, hist>>

\* ------------------------------------------------- publishAudio task
\* createMicrophoneAudioTrack of publishAudio settled ("moderated", "mapped").
CreateDone(k, res) ==
    /\ k \in 1..Len(pubTasks)
    /\ pubTasks[k].pc = "create"
    /\ res = "ok" => HasFreeTrack(Released(0, localVideoTrack))
    /\ IF res = "ok"
       THEN LET ts0 == Released(0, localVideoTrack)
                t == FreshTrack(ts0)
                ts == [ts0 EXCEPT ![t] = NewTrack]
            IN  /\ Commit(runs,
                          [pubTasks EXCEPT
                             ![k].pc = "publish", ![k].track = t,
                             ![k].valid = CanPublish(runs, ts, CurClient, t)],
                          ts, t, localVideoTrack)
                /\ last' = [NoStep EXCEPT !.ev = "createDone",
                                          !.calls = {"publish"}]
       ELSE /\ Commit(runs, RemoveAt(pubTasks, k), tracks,
                      localAudioTrack, localVideoTrack)
            /\ last' = [NoStep EXCEPT !.ev = "createDone", !.ok = FALSE,
                                      !.err = res, !.msg = "mic"]
    /\ UNCHANGED <<screenState, hist>>

\* The transport lets publishAudio's publish succeed.
PubCanSucceed(k) ==
    pubTasks[k].valid /\ CanPublish(runs, tracks, CurClient, pubTasks[k].track)

\* agoraClient.current.publish of publishAudio settled; on success
\* localAudioTrack.current.setMuted(isMuted) follows, on whatever the ref
\* holds by then.
PubDone(k, ok) ==
    /\ k \in 1..Len(pubTasks)
    /\ pubTasks[k].pc = "publish"
    /\ ok => PubCanSucceed(k)
    /\ IF ok
       THEN /\ Commit([runs EXCEPT ![CurClient].pubs = @ \cup {pubTasks[k].track}],
                      RemoveAt(pubTasks, k),
                      MuteT(tracks, localAudioTrack, pubTasks[k].muted),
                      localAudioTrack, localVideoTrack)
            /\ last' = [NoStep EXCEPT !.ev = "pubDone",
                                      !.msg = IF localAudioTrack = 0 THEN "mic" ELSE ""]
       ELSE /\ Commit(runs, RemoveAt(pubTasks, k), tracks,
                      localAudioTrack, localVideoTrack)
            /\ last' = [NoStep EXCEPT !.ev = "pubDone", !.ok = FALSE,
                                      !.msg = "mic"]
    /\ UNCHANGED <<screenState, hist>>

\* agoraClient.current.unpublish of publishAudio settled; on success the track
\* the ref holds by then is stopped and closed and the ref is cleared.
UnpubDone(k, ok) ==
    /\ k \in 1..Len(pubTasks)
    /\ pubTasks[k].pc = "unpublish"
    /\ IF ok
       THEN Commit([runs EXCEPT ![CurClient].pubs = @ \ {pubTasks[k].track}],
                   RemoveAt(pubTasks, k), CloseT(tracks, localAudioTrack),
                   0, localVideoTrack)
       ELSE Commit(runs, RemoveAt(pubTasks, k), tracks,
                   localAudioTrack, localVideoTrack)
    /\ last' = [NoStep EXCEPT !.ev = "unpubDone", !.ok = ok]
    /\ UNCHANGED <<screenState, hist>>

\* ------------------------------------------------------- user intents
\* The screen is past its loading placeholder, so its buttons exist.
Rendered == mounted = "mounted" /\ ~isLoading /\ room # NoRoom

\* toggleMute / handleToggleMute, and the publishAudio effect that the new
\* isMuted re-runs in the screens that have one.
ToggleMute ==
    /\ Rendered
    /\ variant # "video"
    /\ IsSpeaker(room) = "true"
    /\ variant # "mapped" => localAudioTrack # 0
    /\ LET m == ~isMuted
           pubEff == IF variant \in {"moderated", "mapped"}
                     THEN PublishAudioEffect(IsSpeaker(room), localAudioTrack, m,
                                             pubTasks, runs)
                     ELSE [pts |-> pubTasks, calls |-> {}]
       IN  /\ Len(pubEff.pts) <= PubLimit
           /\ isMuted' = m
           /\ Commit(runs, pubEff.pts, MuteT(tracks, localAudioTrack, m),
                     localAudioTrack, localVideoTrack)
           /\ last' = [NoStep EXCEPT !.ev = "toggleMute", !.calls = pubEff.calls]
    /\ UNCHANGED <<variant, appId, roomHost, mounted, room, isLoading, uidMap,
                   handRaisedOptimistic, hist, view>>

\* The Leave button: onGoBack, or handleLeave with the host's confirm dialog.
LeaveClick(confirmed) ==
    /\ Rendered
    /\ LET asksHost == variant \in {"basic", "mapped"} \cup ChatVariants /\ IsHost(room)
       IN  /\ ~asksHost => confirmed
           /\ last' = [NoStep EXCEPT
                         !.ev = "leaveClick",
                         !.cmds = IF asksHost /\ confirmed THEN {"endRoom"} ELSE {},
                         !.exit = ~asksHost]
    /\ UNCHANGED <<screenState, media, hist>>

\* The back button in the header of the mapped screen: onGoBack, for the host
\* too.
BackClick ==
    /\ Rendered
    /\ variant = "mapped"
    /\ last' = [NoStep EXCEPT !.ev = "backClick", !.exit = TRUE]
    /\ UNCHANGED <<screenState, media, hist>>

\* ------------------------------------------------------- specification
Next ==
    \/ Mount
    \/ \E snap \in RoomDocs(variant, roomHost) \cup {NoRoom} : DeliverSnapshot(snap)
    \/ Unmount
    \/ \E r \in 1..MaxRuns : StoreJoinDone(r)
    \/ \E r \in 1..MaxRuns, token \in BOOLEAN : TokenDone(r, token)
    \/ \E r \in 1..MaxRuns, res \in JoinResults : JoinDone(r, res)
    \/ \E r \in 1..MaxRuns, res \in DeviceResults : TracksDone(r, res)
    \/ \E r \in 1..MaxRuns : SetMutedDone(r)
    \/ \E r \in 1..MaxRuns, ok \in BOOLEAN : PublishDone(r, ok)
    \/ \E k \in 1..MaxPub, res \in DeviceResults : CreateDone(k, res)
    \/ \E k \in 1..MaxPub, ok \in BOOLEAN : PubDone(k, ok)
    \/ \E k \in 1..MaxPub, ok \in BOOLEAN : UnpubDone(k, ok)
    \/ ToggleMute
    \/ \E confirmed \in BOOLEAN : LeaveClick(confirmed)
    \/ BackClick

Spec == Init /\ [][Next]_vars

\* The token service, the transport and the devices are healthy and the user
\* touches nothing: a call fails only if the program made it on a client that
\* is not joined, or after leave().
NextHealthy ==
    \/ Mount
    \/ \E snap \in RoomDocs(variant, roomHost) \cup {NoRoom} : DeliverSnapshot(snap)
    \/ Unmount
    \/ \E r \in 1..Len(runs) : StoreJoinDone(r)
    \/ \E r \in 1..Len(runs) : TokenDone(r, TRUE)
    \/ \E r \in 1..Len(runs) : JoinDone(r, IF JoinCanSucceed(r) THEN "ok" ELSE "other")
    \/ \E r \in 1..Len(runs) : TracksDone(r, "ok")
    \/ \E r \in 1..Len(runs) : SetMutedDone(r)
    \/ \E r \in 1..Len(runs) : PublishDone(r, PublishCanSucceed(r))
    \/ \E k \in 1..Len(pubTasks) : CreateDone(k, "ok")
    \/ \E k \in 1..Len(pubTasks) : PubDone(k, PubCanSucceed(k))
    \/ \E k \in 1..Len(pubTasks) : UnpubDone(k, TRUE)

SpecHealthy == Init /\ [][NextHealthy]_vars

\* A guest of the moderated or mapped screen on healthy services, whose role
\* changes and who toggles mute, with room for two publishAudio() invocations
\* and two tracks at once.
InitRace ==
    /\ variant \in {"moderated", "mapped"}
    /\ appId = TRUE
    /\ roomHost = Peer
    /\ mounted = "init"
    /\ room = NoRoom
    /\ isLoading = TRUE
    /\ isMuted = FALSE
    /\ activeSpeakerId = NoId
    /\ uidMap = EmptyMap
    /\ handRaisedOptimistic = FALSE
    /\ localAudioTrack = 0
    /\ localVideoTrack = 0
    /\ runs = <<>>
    /\ pubTasks = <<>>
    /\ tracks = [t \in 1..MaxTracksRace |-> FreeTrack]
    /\ last = NoStep
    /\ hist = NoHist
    /\ calc = NoCalc
    /\ selectedParticipant = NoId
    /\ cmdsInFlight = 0
    /\ remoteUsers = {}

NextRace ==
    \/ Mount
    \/ \E snap \in RoomDocs(variant, roomHost) \cup {NoRoom} : DeliverSnapshot(snap)
    \/ Unmount
    \/ \E r \in 1..Len(runs) : TokenDone(r, TRUE)
    \/ \E r \in 1..Len(runs) : JoinDone(r, IF JoinCanSucceed(r) THEN "ok" ELSE "other")
    \/ \E k \in 1..Len(pubTasks) : CreateDone(k, "ok")
    \/ \E k \in 1..Len(pubTasks) : PubDone(k, PubCanSucceed(k))
    \/ \E k \in 1..Len(pubTasks) : UnpubDone(k, TRUE)
    \/ ToggleMute

SpecRace == InitRace /\ [][NextRace]_vars

\* ------------------------------------------ stringToNumericUid, alone
MaxLen == 3       \* code units of a short identity

\* 'A', 'B', 'a' and the largest code unit.
Units == {65, 66, 97, 65535}

ShortIds == UNION { [1..n -> Units] : n \in 0..MaxLen }

\* "9iazipp": its rolling hash wraps to -2^31.
MinId == <<57, 105, 97, 122, 105, 112, 112>>
\* "zzzzzzz": its rolling hash wraps to a negative word.
LowId == <<122, 122, 122, 122, 122, 122, 122>>

Identities == ShortIds \cup {Me, Peer, Third, MinId, LowId}

\* No screen is mounted.
NoSession ==
    /\ appId = TRUE
    /\ roomHost = Me
    /\ mounted = "init"
    /\ room = NoRoom
    /\ isLoading = TRUE
    /\ isMuted = FALSE
    /\ activeSpeakerId = NoId
    /\ uidMap = EmptyMap
    /\ handRaisedOptimistic = FALSE
    /\ localAudioTrack = 0
    /\ localVideoTrack = 0
    /\ runs = <<>>
    /\ pubTasks = <<>>
    /\ tracks = [t \in 1..MaxTracks |-> FreeTrack]
    /\ last = NoStep
    /\ hist = NoHist
    /\ selectedParticipant = NoId
    /\ remoteUsers = {}
    /\ cmdsInFlight = 0

InitHash ==
    /\ variant \in {"video", "mapped"}
    /\ NoSession
    /\ \E uid \in Identities : calc = [NoCalc EXCEPT !.op = "uid", !.uid = uid]

\* Everything but calc.
session == <<variant, appId, roomHost, mounted, room, isLoading, isMuted,
             activeSpeakerId, uidMap, handRaisedOptimistic, media, last, hist,
             modal, remoteUsers>>

\* stringToNumericUid(uid) is called.
CallUid ==
    /\ calc.op = "uid"
    /\ calc' = [calc EXCEPT !.op = "once", !.out = stringToNumericUid(calc.uid)]
    /\ UNCHANGED session

\* It is called with the same string once more.
CallUidAgain ==
    /\ calc.op = "once"
    /\ calc' = [calc EXCEPT !.op = "twice", !.again = stringToNumericUid(calc.uid)]
    /\ UNCHANGED session

NextHash == CallUid \/ CallUidAgain

SpecHash == InitHash /\ [][NextHash]_vars

\* ------------------------------- the video room's catch block, alone
\* Names and codes of the errors of the browser and of the transport, a
\* missing code, and an empty and a non-empty message.
ErrorNames ==
    {"NotFoundError", "DevicesNotFoundError", "NotAllowedError", "NotReadableError",
     "AgoraRTCException", "Error"}

ErrorCodes ==
    {"DEVICE_NOT_FOUND", "PERMISSION_DENIED", "UNEXPECTED_ERROR", "INVALID_OPERATION",
     "undefined"}

ErrorMessages == {"", "m"}

Errors == [name : ErrorNames, code : ErrorCodes, message : ErrorMessages]

DeviceNotFound(error) ==
    error.name \in {"NotFoundError", "DevicesNotFoundError"}
        \/ error.code = "DEVICE_NOT_FOUND"

PermissionDenied(error) ==
    error.name = "NotAllowedError" \/ error.code = "PERMISSION_DENIED"

CatchCauseDeniedFirst(error) ==
    IF PermissionDenied(error) THEN "denied"
    ELSE IF DeviceNotFound(error) THEN "notFound"
    ELSE "start"
\* The branch the catch block of joinAndPublish takes; "start" is the message
\* "Could not start the video room: ...".
CatchCause(error) ==
    IF DeviceNotFound(error) THEN "notFound"
    ELSE IF PermissionDenied(error) THEN "denied"
    ELSE "start"

\* ${error.message || 'Unknown error'}
CatchText(error) ==
    IF CatchCause(error) # "start" THEN ""
    ELSE IF error.message = "" THEN "Unknown error" ELSE error.message

InitCatch ==
    /\ variant = "video"
    /\ NoSession
    /\ \E error \in Errors : calc = [NoCalc EXCEPT !.op = "error", !.error = error]

\* joinAndPublish threw the error: the catch block reports its cause.
CatchError ==
    /\ calc.op = "error"
    /\ calc' = [calc EXCEPT !.op = "caught", !.cause = CatchCause(calc.error),
                            !.text = CatchText(calc.error)]
    /\ UNCHANGED session

NextCatch == CatchError

SpecCatch == InitCatch /\ [][NextCatch]_vars

\* ------------------------------------------- the reverse table, alone
MaxListed == 2    \* identities in one list of a room document

\* "Aa" and "BB" have the same rolling hash, 2112.
Aa == <<65, 97>>
BB == <<66, 66>>

MapperIds == {Me, Peer, Aa, BB}

IdSeqs == UNION { [1..n -> MapperIds] : n \in 0..MaxListed }

MapperDocs(v) ==
    IF v = "video" THEN { VideoSnap(1, Me, ps) : ps \in IdSeqs }
    ELSE { Snap(1, h, spk, lst, {}, {}, {}, {}) :
               h \in MapperIds, spk \in IdSeqs, lst \in IdSeqs }

\* The users the listener callback walks, in its order.
ListedSeq(v, r) ==
    IF v = "video" THEN r.participants ELSE r.speakers \o r.listeners \o <<r.host>>

InitRebuild ==
    /\ variant \in {"video", "mapped"}
    /\ NoSession
    /\ \E doc \in MapperDocs(variant) : calc = [NoCalc EXCEPT !.op = "doc", !.doc = doc]

\* The listener callback builds the new Map from the document.
Rebuild ==
    /\ calc.op = "doc"
    /\ calc' = [calc EXCEPT !.op = "rebuilt",
                            !.table = RebuildUidMap(variant, calc.doc)]
    /\ UNCHANGED session

NextRebuild == Rebuild

SpecRebuild == InitRebuild /\ [][NextRebuild]_vars

\* ------------------------------------------------- participant modal
MaxCmds == 1      \* moderation commands in flight at once

Roles == {"listener", "raised", "speaker", "muted", "coHost"}

\* The room documents of the moderation scenarios, for a room hosted by h: the
\* host speaks, and each other participant listens, listens with a raised
\* hand, speaks, speaks but is muted by a moderator, or is a co-host (and
\* speaks).
ModDoc(h, roleOf) ==
    LET others == <<Me, Peer, Third>>
        pick(P(_)) == SelectSeq(others, LAMBDA id : id # h /\ P(id))
        n(id) == IF id = h THEN 0
                 ELSE CHOOSE k \in 1..5 :
                          roleOf[id] = <<"listener", "raised", "speaker", "muted",
                                         "coHost">>[k]
    IN  Snap(1 + n(Me) + 6 * n(Peer) + 36 * n(Third), h,
             <<h>> \o pick(LAMBDA id : roleOf[id] \notin {"listener", "raised"}),
             pick(LAMBDA id : roleOf[id] \in {"listener", "raised"}),
             { id \in {Me, Peer, Third} \ {h} : roleOf[id] = "coHost" },
             { id \in {Me, Peer, Third} \ {h} : roleOf[id] = "raised" },
             { id \in {Me, Peer, Third} \ {h} : roleOf[id] = "muted" },
             {})

ModDocs(h) ==
    IF h = Me
    THEN { ModDoc(Me, [id \in {Me, Peer, Third} |->
                          IF id = Peer THEN role ELSE "listener"]) : role \in Roles }
    ELSE { ModDoc(h, [id \in {Me, Peer, Third} |->
                         IF id = Me THEN mine ELSE theirs]) :
               mine \in Roles \ {"muted"}, theirs \in Roles }

\* room.coHosts?.some(c => c.id === id)
IsCoHost(r, id) == id \in r.coHosts

\* isAdmin
IsAdmin(r) == IsHost(r) \/ IsCoHost(r, Me)

AdminManagesAll(r, targetUser) == IsAdmin(r)
CoHostManagesHost(r, targetUser) ==
    IsHost(r) \/ (IsCoHost(r, Me) /\ ~IsCoHost(r, targetUser))
CoHostManagesCoHosts(r, targetUser) ==
    IsHost(r) \/ (IsCoHost(r, Me) /\ r.host # targetUser)
\* canManageTarget
CanManageTarget(r, targetUser) ==
    IsHost(r) \/ (IsCoHost(r, Me) /\ ~IsCoHost(r, targetUser) /\ r.host # targetUser)

CanPromoteAnyRole(r, targetUser) == ~IsCoHost(r, targetUser) /\ IsHost(r)
CanPromoteByAdmin(r, targetUser) ==
    InSeq(targetUser, r.speakers) /\ ~IsCoHost(r, targetUser)
\* isTargetSpeaker && !isTargetCoHost && isHost
CanPromote(r, targetUser) ==
    InSeq(targetUser, r.speakers) /\ ~IsCoHost(r, targetUser) /\ IsHost(r)

\* The command buttons the modal renders for the target.
Buttons(r, targetUser) ==
    IF ~IsAdmin(r) \/ targetUser = Me THEN {}
    ELSE IF ~CanManageTarget(r, targetUser) THEN {}
    ELSE LET isTargetSpeaker == InSeq(targetUser, r.speakers)
             isTargetMuted == targetUser \in r.mutedSpeakers
         IN  (IF CanPromote(r, targetUser) THEN {"promoteToCoHost"} ELSE {})
             \cup (IF IsCoHost(r, targetUser) /\ IsHost(r) THEN {"demoteCoHost"} ELSE {})
             \cup (IF isTargetSpeaker /\ isTargetMuted THEN {"unmuteSpeaker"} ELSE {})
             \cup (IF isTargetSpeaker /\ ~isTargetMuted THEN {"muteSpeaker"} ELSE {})
             \cup (IF isTargetSpeaker /\ targetUser # r.host
                   THEN {"moveToAudience"} ELSE {})
             \cup (IF ~isTargetSpeaker THEN {"inviteToSpeak"} ELSE {})
             \cup {"kickUser"}

\* The buttons of the host-only modal of the hostchat screen.
HostButtons(r, targetUser) ==
    IF ~IsHost(r) \/ targetUser = Me THEN {}
    ELSE LET isTargetSpeaker == InSeq(targetUser, r.speakers)
             hasRaisedHand == targetUser \in r.raisedHands
         IN  (IF hasRaisedHand /\ ~isTargetSpeaker THEN {"inviteToSpeak"} ELSE {})
             \cup (IF isTargetSpeaker /\ targetUser # r.host
                   THEN {"moveToAudience"} ELSE {})

ModalButtons(v, r, targetUser) ==
    IF targetUser = NoId \/ r = NoRoom THEN {}
    ELSE IF v = "hostchat" THEN HostButtons(r, targetUser)
    ELSE IF v \in {"moderated", "mapped"} THEN Buttons(r, targetUser)
    ELSE {}

\* A speaker card or a listener card is clicked; the hostchat screen opens
\* the modal for the host and the participant's profile for anyone else.
SelectParticipant(p) ==
    /\ Rendered
    /\ variant \in {"moderated", "mapped", "hostchat"}
    /\ InSeq(p, room.speakers \o room.listeners)
    /\ LET opens == variant # "hostchat" \/ IsHost(room)
       IN  /\ selectedParticipant' = IF opens THEN p ELSE selectedParticipant
           /\ last' = [NoStep EXCEPT !.ev = IF opens THEN "select" ELSE "profile",
                                     !.target = p]
    /\ UNCHANGED <<variant, appId, roomHost, mounted, room, isLoading, isMuted,
                   activeSpeakerId, uidMap, handRaisedOptimistic, media, hist, calc,
                   remoteUsers, cmdsInFlight>>

\* A command button of the modal is clicked; the kick handler asks first.
\* The hostchat handlers close the modal themselves, the others when the
\* command has settled.
ModalClick(cmd, confirmed) ==
    /\ Rendered
    /\ selectedParticipant # NoId
    /\ cmd \in ModalButtons(variant, room, selectedParticipant)
    /\ cmd # "kickUser" => confirmed
    /\ LET sent == cmd # "kickUser" \/ confirmed
           awaited == sent /\ variant # "hostchat"
       IN  /\ awaited => cmdsInFlight < MaxCmds
           /\ cmdsInFlight' = IF awaited THEN cmdsInFlight + 1 ELSE cmdsInFlight
           /\ selectedParticipant' =
                  IF variant = "hostchat" THEN NoId ELSE selectedParticipant
           /\ last' = [NoStep EXCEPT !.ev = "modalClick",
                                     !.cmds = IF sent THEN {cmd} ELSE {},
                                     !.target = selectedParticipant]
    /\ UNCHANGED <<variant, appId, roomHost, mounted, room, isLoading, isMuted,
                   activeSpeakerId, uidMap, handRaisedOptimistic, media, hist, calc, remoteUsers>>

\* raisedHandUsers of the basic screen.
RaisedHandUsers(r) ==
    { r.listeners[i] : i \in 1..Len(r.listeners) } \cap r.raisedHands

InviteUnguarded(r, userId) == userId \in RaisedHandUsers(r)
\* The Invite to Speak button of the basic screen's raised-hands list is
\* rendered, and the guard of handleInviteToSpeak passes.
InviteOffered(r, userId) == userId \in RaisedHandUsers(r) /\ IsHost(r)

\* handleInviteToSpeak(u.id) of the basic screen.
InviteClick(userId) ==
    /\ Rendered
    /\ variant = "basic"
    /\ InviteOffered(room, userId)
    /\ last' = [NoStep EXCEPT !.ev = "inviteClick", !.cmds = {"inviteToSpeak"},
                              !.target = userId]
    /\ UNCHANGED <<screenState, media, hist>>

\* hasRaisedHand of the screen.
HasRaisedHand == Me \in room.raisedHands \/ handRaisedOptimistic

\* handleRaiseHand passes its guard: the moderated, mapped and hostchat
\* handlers return when the hand is raised already, the other two have no
\* guard.
RaiseHandPasses(v) == v \in {"basic", "chat"} \/ ~HasRaisedHand

\* The raise-hand button is rendered to a user who is not a speaker (and, in
\* the chat screen, not the host); three screens disable it while the hand
\* is raised.
RaiseHandButton(v) ==
    /\ IsSpeaker(room) # "true"
    /\ v = "chat" => ~IsHost(room)
    /\ v \in {"moderated", "mapped", "hostchat"} => ~HasRaisedHand

\* handleRaiseHand
RaiseHand ==
    /\ Rendered
    /\ variant # "video"
    /\ RaiseHandButton(variant)
    /\ handRaisedOptimistic' =
           IF variant = "moderated" /\ RaiseHandPasses(variant)
           THEN TRUE ELSE handRaisedOptimistic
    /\ last' = [NoStep EXCEPT
                  !.ev = "raiseHand",
                  !.cmds = IF RaiseHandPasses(variant) THEN {"raiseHand"} ELSE {},
                  !.target = Me,
                  !.msg = IF RaiseHandPasses(variant)
                             /\ variant \in {"mapped", "chat", "hostchat"}
                          THEN "raised" ELSE ""]
    /\ UNCHANGED <<variant, appId, roomHost, mounted, room, isLoading, isMuted,
                   activeSpeakerId, uidMap, media, hist, calc, remoteUsers, modal>>

\* The command settled: .then(onClose) closes the modal if it was fulfilled.
CommandDone(ok) ==
    /\ cmdsInFlight > 0
    /\ cmdsInFlight' = cmdsInFlight - 1
    /\ selectedParticipant' = IF ok THEN NoId ELSE selectedParticipant
    /\ last' = [NoStep EXCEPT !.ev = "commandDone", !.ok = ok]
    /\ UNCHANGED <<variant, appId, roomHost, mounted, room, isLoading, isMuted,
                   activeSpeakerId, uidMap, handRaisedOptimistic, media, hist, calc, remoteUsers>>

\* Cancel, or a click on the backdrop.
CloseModal ==
    /\ Rendered
    /\ selectedParticipant # NoId
    /\ selectedParticipant' = NoId
    /\ last' = [NoStep EXCEPT !.ev = "closeModal"]
    /\ UNCHANGED <<variant, appId, roomHost, mounted, room, isLoading, isMuted,
                   activeSpeakerId, uidMap, handRaisedOptimistic, media, hist, calc, remoteUsers,
                   cmdsInFlight>>

\* The screens with roles: every screen but the video room.  The text-only
\* screens do not read the application id.
InitModeration ==
    /\ variant \in {"moderated", "mapped", "basic"} \cup ChatVariants
    /\ appId \in BOOLEAN
    /\ variant \in ChatVariants => appId
    /\ roomHost \in {Me, Peer}
    /\ mounted = "init"
    /\ room = NoRoom
    /\ isLoading = TRUE
    /\ isMuted = (variant = "basic")
    /\ activeSpeakerId = NoId
    /\ uidMap = EmptyMap
    /\ handRaisedOptimistic = FALSE
    /\ localAudioTrack = 0
    /\ localVideoTrack = 0
    /\ runs = <<>>
    /\ pubTasks = <<>>
    /\ tracks = [t \in 1..MaxTracks |-> FreeTrack]
    /\ last = NoStep
    /\ hist = NoHist
    /\ calc = NoCalc
    /\ selectedParticipant = NoId
    /\ remoteUsers = {}
    /\ cmdsInFlight = 0

\* A moderated session on healthy services, with the moderator's clicks.
NextModeration ==
    \/ Mount
    \/ \E snap \in ModDocs(roomHost) \cup {NoRoom} : DeliverSnapshot(snap)
    \/ Unmount
    \/ \E r \in 1..Len(runs) : StoreJoinDone(r)
    \/ \E r \in 1..Len(runs) : TokenDone(r, TRUE)
    \/ \E r \in 1..Len(runs) : JoinDone(r, IF JoinCanSucceed(r) THEN "ok" ELSE "other")
    \/ \E r \in 1..Len(runs) : TracksDone(r, "ok")
    \/ \E r \in 1..Len(runs) : SetMutedDone(r)
    \/ \E r \in 1..Len(runs) : PublishDone(r, PublishCanSucceed(r))
    \/ \E k \in 1..Len(pubTasks) : CreateDone(k, "ok")
    \/ \E k \in 1..Len(pubTasks) : PubDone(k, PubCanSucceed(k))
    \/ \E k \in 1..Len(pubTasks) : UnpubDone(k, TRUE)
    \/ \E p \in {Me, Peer, Third} : SelectParticipant(p)
    \/ \E cmd \in ModalButtons(variant, room, selectedParticipant),
          confirmed \in BOOLEAN : ModalClick(cmd, confirmed)
    \/ \E userId \in {Me, Peer, Third} : InviteClick(userId)
    \/ RaiseHand
    \/ \E confirmed \in BOOLEAN : LeaveClick(confirmed)
    \/ BackClick
    \/ \E ok \in BOOLEAN : CommandDone(ok)
    \/ CloseModal

SpecModeration == InitModeration /\ [][NextModeration]_vars

\* ------------------------------------------------ active speaker detector
MaxBatch == 2     \* samples in one volume-indicator batch

\* Levels below, at and above the two thresholds.
Levels == {3, 5, 10, 50}

Samples(v) == [uid : { TransportUid(v, id) : id \in {Me, Peer, Third} }, level : Levels]

Batches(v) == UNION { [1..n -> Samples(v)] : n \in 0..MaxBatch }

\* volumes.reduce((max, current) => current.level > max.level ? current : max, ...)
RECURSIVE Reduce(_, _, _)
Reduce(max, volumes, i) ==
    IF i > Len(volumes) THEN max
    ELSE Reduce(IF volumes[i].level > max.level THEN volumes[i] ELSE max,
                volumes, i + 1)

\* The video and basic handlers reduce without an initial value (and only a
\* batch that is not empty), the other two start from { level: 0 }.
MainSpeaker(v, volumes) ==
    IF v \in {"video", "basic"} THEN Reduce(volumes[1], volumes, 2)
    ELSE Reduce(NoSample, volumes, 1)

Threshold(v) == IF v \in {"video", "basic"} THEN 5 ELSE 10

ExceedsOrEquals(level, v) == level >= Threshold(v)
\* mainSpeaker.level > threshold
Exceeds(level, v) == level > Threshold(v)

LookupOrUid(m, uid) == IF uid \in DOMAIN m THEN m[uid] ELSE uid
\* uidMap.get(uid) || null
Lookup(m, uid) == IF uid \in DOMAIN m THEN m[uid] ELSE NoId

\* The value the handler gives activeSpeakerId; map is the uidMap the handler
\* closed over, prev the value before the batch.
HandleVolumeIndicator(v, map, prev, volumes) ==
    IF Len(volumes) = 0 /\ v = "basic" THEN prev
    ELSE IF Len(volumes) = 0 /\ v \in {"video", "moderated"} THEN NoId
    ELSE LET mainSpeaker == MainSpeaker(v, volumes)
         IN  IF Exceeds(mainSpeaker.level, v)
             THEN (IF v \in {"video", "mapped"} THEN Lookup(map, mainSpeaker.uid)
                   ELSE mainSpeaker.uid)
             ELSE NoId

\* The largest level of a batch, 0 for an empty one.
MaxLevel(volumes) ==
    IF Len(volumes) = 0 THEN 0
    ELSE CHOOSE l \in Levels :
             /\ \E i \in 1..Len(volumes) : volumes[i].level = l
             /\ \A i \in 1..Len(volumes) : volumes[i].level <= l

\* A joined client with the handler registered delivers a batch.
VolumeIndicator(r, volumes) ==
    /\ mounted = "mounted"
    /\ r \in 1..Len(runs)
    /\ runs[r].conn = "CONNECTED"
    /\ runs[r].listening
    /\ activeSpeakerId' =
           HandleVolumeIndicator(variant, runs[r].uidMap, activeSpeakerId, volumes)
    /\ last' = [NoStep EXCEPT
                  !.ev = "volume", !.empty = (Len(volumes) = 0),
                  !.maxLevel = MaxLevel(volumes),
                  !.top = IF Len(volumes) = 0 THEN NoSample
                          ELSE MainSpeaker(variant, volumes),
                  !.table = runs[r].uidMap]
    /\ UNCHANGED <<variant, appId, roomHost, mounted, room, isLoading, isMuted,
                   uidMap, handRaisedOptimistic, media, hist, calc, remoteUsers, modal>>

\* The healthy session with the volume sampling of the transport.
NextVolume ==
    \/ NextHealthy
    \/ \E r \in 1..MaxRuns : \E volumes \in Batches(variant) : VolumeIndicator(r, volumes)

SpecVolume == Init /\ [][NextVolume]_vars

\* ------------------------------------------------ remote participants
RemoteIds == {Peer, Third}

MaxSubs == 1      \* subscribe calls in flight on one client

MediaTypes == {"audio", "video"}

PlaysAny(mediaType) == TRUE
\* if (mediaType === 'audio') user.audioTrack?.play()
PlaysAfterSubscribe(mediaType) == mediaType = "audio"

\* user-published: every screen calls client.subscribe(user, mediaType) and
\* awaits it; the transport lists the user in client.remoteUsers.
UserPublished(r, id, mediaType) ==
    /\ mounted = "mounted"
    /\ r \in 1..Len(runs)
    /\ runs[r].conn = "CONNECTED"
    /\ runs[r].listening
    /\ Cardinality(runs[r].subs) < MaxSubs
    /\ runs' = [runs EXCEPT ![r].remote = @ \cup {id},
                            ![r].subs = @ \cup {[id |-> id, mediaType |-> mediaType]}]
    /\ last' = [NoStep EXCEPT !.ev = "userPublished", !.calls = {"subscribe"},
                              !.target = id, !.mediaType = mediaType]
    /\ UNCHANGED <<variant, appId, roomHost, mounted, room, isLoading, isMuted,
                   activeSpeakerId, uidMap, handRaisedOptimistic, localAudioTrack,
                   localVideoTrack, pubTasks, tracks, hist, calc, modal, remoteUsers>>

\* client.subscribe settled: the handler plays a remote audio track, and the
\* video screen copies client.remoteUsers into its state; a rejected
\* subscribe ends the handler.
SubscribeDone(r, sub, ok) ==
    /\ r \in 1..Len(runs)
    /\ sub \in runs[r].subs
    /\ runs' = [runs EXCEPT ![r].subs = @ \ {sub}]
    /\ remoteUsers' = IF ok /\ variant = "video" /\ mounted = "mounted"
                      THEN runs[r].remote ELSE remoteUsers
    /\ last' = [NoStep EXCEPT
                  !.ev = "subscribeDone", !.ok = ok,
                  !.calls = IF ok /\ PlaysAfterSubscribe(sub.mediaType)
                            THEN {"play"} ELSE {},
                  !.target = sub.id, !.mediaType = sub.mediaType]
    /\ UNCHANGED <<variant, appId, roomHost, mounted, room, isLoading, isMuted,
                   activeSpeakerId, uidMap, handRaisedOptimistic, localAudioTrack,
                   localVideoTrack, pubTasks, tracks, hist, calc, modal>>

\* user-unpublished: the transport keeps the user in client.remoteUsers.
\* handleUserUnpublished of the video screen copies that list; the other
\* screens register no handler for the event.
UserUnpublished(r, id) ==
    /\ mounted = "mounted"
    /\ r \in 1..Len(runs)
    /\ runs[r].conn = "CONNECTED"
    /\ runs[r].listening
    /\ id \in runs[r].remote
    /\ remoteUsers' = IF variant = "video" THEN runs[r].remote ELSE remoteUsers
    /\ last' = [NoStep EXCEPT !.ev = "userUnpublished", !.target = id]
    /\ UNCHANGED <<variant, appId, roomHost, mounted, room, isLoading, isMuted,
                   activeSpeakerId, uidMap, handRaisedOptimistic, media, hist, calc,
                   modal>>

\* user-left: the transport drops the user.  handleUserLeft of the video
\* screen filters the user out of its state; the other screens register no
\* handler for the event.
UserLeft(r, id) ==
    /\ mounted = "mounted"
    /\ r \in 1..Len(runs)
    /\ runs[r].conn = "CONNECTED"
    /\ runs[r].listening
    /\ id \in runs[r].remote
    /\ runs' = [runs EXCEPT ![r].remote = @ \ {id}]
    /\ remoteUsers' = IF variant = "video" THEN remoteUsers \ {id} ELSE remoteUsers
    /\ last' = [NoStep EXCEPT !.ev = "userLeft", !.target = id]
    /\ UNCHANGED <<variant, appId, roomHost, mounted, room, isLoading, isMuted,
                   activeSpeakerId, uidMap, handRaisedOptimistic, localAudioTrack,
                   localVideoTrack, pubTasks, tracks, hist, calc, modal>>

\* The batches of the remote participants' scenarios: silence, or one remote
\* participant speaking up.
LoudBatches(v) ==
    {<<>>} \cup { <<[uid |-> TransportUid(v, id), level |-> 50]>> : id \in RemoteIds }

\* The healthy session with the remote participants' events of the transport
\* and the volume batches they cause.
NextRemote ==
    \/ NextHealthy
    \/ \E r \in 1..MaxRuns : \E volumes \in LoudBatches(variant) :
           VolumeIndicator(r, volumes)
    \/ \E r \in 1..MaxRuns, id \in RemoteIds, mediaType \in MediaTypes :
           UserPublished(r, id, mediaType)
    \/ \E r \in 1..MaxRuns : \E sub \in [id : RemoteIds, mediaType : MediaTypes] :
           \E ok \in BOOLEAN : SubscribeDone(r, sub, ok)
    \/ \E r \in 1..MaxRuns, id \in RemoteIds : UserUnpublished(r, id)
    \/ \E r \in 1..MaxRuns, id \in RemoteIds : UserLeft(r, id)

SpecRemote == Init /\ [][NextRemote]_vars

\* --------------------------------------------------------- properties
\* No task is in flight: nothing more happens without a new event.
Quiescent ==
    /\ \A r \in 1..Len(runs) : runs[r].pc = "done"
    /\ pubTasks = <<>>

\* The local audio track the ref holds is published on the current client.
AudioPublished ==
    /\ localAudioTrack # 0
    /\ CurClient # 0
    /\ localAudioTrack \in runs[CurClient].pubs

\* Some client of this screen sends unmuted local audio.
Transmitting ==
    \E r \in 1..Len(runs) : \E t \in runs[r].pubs :
        tracks[t].state = "open" /\ ~tracks[t].muted

\* C1: in a joined state, the delivery of a snapshot equal in content to the
\* one just applied issues no join, leave, publish, unpublish or token request
\* and starts no new run of the transport lifecycle.
C1_SameSnapshotIssuesNoCalls ==
    [][(AnyJoined /\ last'.ev = "snapshot" /\ last'.same)
         => (last'.calls = {} /\ last'.cmds = {})]_vars

\* C2: with the application configured, the handling step of a snapshot that
\* lists the local identity in the kicked set signals the caller to exit the
\* room, in every screen.
C2_KickedSnapshotExits ==
    (appId /\ last.ev = "snapshot" /\ last.kicked) => last.exit

\* C3: once the screen has left (its cleanup has run leave()), no completion
\* of a call issued before calls the transport's join or publish or changes
\* the local track the session holds.
C3_NoEffectAfterLeave ==
    [][(mounted = "unmounted" /\ HasCleanup)
         => /\ "join" \notin last'.calls
            /\ "publish" \notin last'.calls
            /\ localAudioTrack' = localAudioTrack]_vars

\* C4: with the application configured, the room state the session holds
\* never goes back to an older version of the document than one already
\* applied.
C4_StaleSnapshotIgnored ==
    [][(appId /\ room # NoRoom /\ room' # NoRoom) => room'.ver >= room.ver]_vars

\* C5: a token request that returns no credential surfaces a message and
\* signals exit without calling join, and after it the session neither calls
\* join nor requests a token again.
C5_TokenFailureTerminal ==
    [][/\ (last'.ev = "tokenDone" /\ ~last'.ok)
            => (last'.exit /\ last'.msg # "" /\ last'.calls = {})
       /\ hist.tokenFailed
            => ("join" \notin last'.calls /\ "token" \notin last'.calls)]_vars

\* C6: a join that fails after a credential was obtained surfaces a message
\* and signals the caller to exit the room, in every screen.
C6_JoinFailureTerminal ==
    (last.ev = "joinDone" /\ ~last.ok) => (last.exit /\ last.msg # "")

\* C7: with the application configured, the handling step of a null snapshot
\* signals exit, and after it the session calls neither join nor publish.
C7_EndedRoomIsLeft ==
    [][appId =>
         /\ (last'.ev = "snapshot" /\ last'.null) => last'.exit
         /\ hist.ended => ("join" \notin last'.calls /\ "publish" \notin last'.calls)]_vars

\* C8: with a healthy token service, transport and microphone and no user
\* action, once a screen with a publishAudio effect has settled, joined, on a
\* snapshot that lists the local identity, a guest, among the speakers, the
\* local audio track is published.
C8_PromotedListenerPublishes ==
    (/\ variant \in {"moderated", "mapped"}
     /\ ~IsHost(room)
     /\ mounted = "mounted"
     /\ Quiescent
     /\ Connected(runs, CurClient)
     /\ IsSpeaker(room) = "true")
        => AudioPublished

\* C9: once a snapshot that lists the local identity in mutedSpeakers has been
\* reconciled, the session does not transmit audio: its track is unpublished
\* or muted.
C9_MutedSpeakerIsSilent ==
    (/\ mounted = "mounted"
     /\ Quiescent
     /\ room # NoRoom
     /\ Me \in room.mutedSpeakers)
        => ~Transmitting

\* C10: when the microphone is denied to a publish attempt, a message is
\* surfaced, no exit is signalled and the transport session is not left.
C10_MicDeniedStaysJoined ==
    (last.ev \in {"createDone", "tracksDone"} /\ last.err = "denied")
        => (last.msg # "" /\ ~last.exit /\ "leave" \notin last.calls)

\* C11: the event that follows a failed microphone creation or publish, if
\* it is not a change of the local role, starts no track creation and no
\* publish.
C11_NoRetryWithoutRoleChange ==
    [][(/\ last.ev \in {"createDone", "pubDone"}
        /\ ~last.ok
        /\ last'.ev \in {"snapshot", "toggleMute", "leaveClick"}
        /\ IsSpeaker(room') = IsSpeaker(room))
         => last'.calls \cap {"createTrack", "createTracks", "publish"} = {}]_vars

\* C12: after an empty volume batch the active speaker is none, in every
\* screen.
C12_EmptyBatchYieldsNone ==
    (last.ev = "volume" /\ last.empty) => activeSpeakerId = NoId

\* The identities a room document lists.
Listed(v, r) == { ListedSeq(v, r)[i] : i \in 1..Len(ListedSeq(v, r)) } \ {NoId}

\* C13: a batch whose loudest sample is above the threshold and carries the
\* transport uid of a participant P of the latest applied snapshot makes P
\* the active speaker.
C13_LoudestListedBecomesActive ==
    (last.ev = "volume" /\ ~last.empty /\ Exceeds(last.top.level, variant))
        => \A P \in Listed(variant, room) :
               last.top.uid = TransportUid(variant, P) => activeSpeakerId = P

\* C14: a batch that is not empty and whose largest level is at most the
\* threshold of the screen (5 or 10), the threshold itself included, leaves
\* no active speaker.
C14_AtMostThresholdYieldsNone ==
    (last.ev = "volume" /\ ~last.empty /\ last.maxLevel <= Threshold(variant))
        => activeSpeakerId = NoId

\* The loudest sample is exactly at the threshold and belongs to a
\* participant the handler could have named.
C14_Witness ==
    /\ last.ev = "volume" /\ ~last.empty
    /\ last.maxLevel = Threshold(variant)
    /\ variant \in {"video", "moderated"}
    /\ variant = "video" => last.top.uid \in DOMAIN last.table
    /\ activeSpeakerId = NoId

\* C15: in the screens that map transport uids, a batch whose loudest sample
\* carries a uid with no entry in the table the handler maps through leaves
\* no active speaker, however loud the sample, and the handler reports no
\* error and does not leave the room.
C15_UnknownUidYieldsNone ==
    (/\ last.ev = "volume" /\ ~last.empty
     /\ variant \in {"video", "mapped"}
     /\ last.top.uid \notin DOMAIN last.table)
        => (activeSpeakerId = NoId /\ last.err = "" /\ last.msg = "" /\ ~last.exit)

\* The video handler holds a table with entries and the loudest sample, above
\* the threshold, carries a uid that is not among them.
C15_Witness ==
    /\ last.ev = "volume" /\ variant = "video"
    /\ last.table # EmptyMap
    /\ last.top.uid \notin DOMAIN last.table
    /\ Exceeds(last.top.level, variant)
    /\ activeSpeakerId = NoId

\* C16: stringToNumericUid returns the same value for the same string and
\* never a negative one.
C16_UidDeterministicNonNegative ==
    /\ calc.op \in {"once", "twice"} => calc.out[1] >= 0
    /\ calc.op = "twice" => calc.again = calc.out

\* The function was called twice for an identity whose wrapped hash is a
\* negative word.
C16_Witness ==
    /\ calc.op = "twice"
    /\ HashFrom(<<0, 0>>, calc.uid, 1)[1] >= 32768
    /\ calc.out[1] >= 0

\* C17: the value stringToNumericUid returns lies in 0..2^31-1, for every
\* identity, the ones whose wrapped hash is -2^31 included.
C17_UidWithinInt31 ==
    calc.op \in {"once", "twice"} => (calc.out[1] >= 0 /\ calc.out[1] < 32768)

\* C18 as stated: after a rebuild every identity the document lists resolves
\* through its uid back to itself.
C18_EveryListedResolvesToItself ==
    calc.op = "rebuilt"
        => \A id \in Listed(variant, calc.doc) :
               Lookup(calc.table, stringToNumericUid(id)) = id

\* C18, amended: after a rebuild the uid of every identity the document lists
\* has an entry; the entry is the identity listed last among those with that
\* uid, hence the identity itself when no other listed identity shares its uid.
C18_ListedResolvesToLastSharer ==
    calc.op = "rebuilt"
        => \A id \in Listed(variant, calc.doc) :
               LET order == ListedSeq(variant, calc.doc)
                   k == stringToNumericUid(id)
                   same == { i \in 1..Len(order) : stringToNumericUid(order[i]) = k }
                   lastIdx == CHOOSE i \in same : \A j \in same : j <= i
               IN  /\ k \in DOMAIN calc.table
                   /\ calc.table[k] = order[lastIdx]
                   /\ (\A i \in same : order[i] = id) => calc.table[k] = id

\* A rebuilt table of a document that lists two identities with one uid and
\* a third identity with a uid of its own.
C18_Witness ==
    /\ calc.op = "rebuilt"
    /\ {Aa, BB, Me} \subseteq Listed(variant, calc.doc)
    /\ Lookup(calc.table, stringToNumericUid(Me)) = Me
    /\ Lookup(calc.table, stringToNumericUid(Aa)) \in {Aa, BB}

\* C19: promoteToCoHost is sent only for a target that the room document the
\* screen holds, the latest one applied, lists among the speakers and not
\* among the co-hosts.
C19_PromoteOnlySpeakers ==
    (last.ev = "modalClick" /\ "promoteToCoHost" \in last.cmds)
        => (InSeq(last.target, room.speakers) /\ last.target \notin room.coHosts)

\* The host promoted a speaker.
C19_Witness ==
    /\ last.ev = "modalClick" /\ last.cmds = {"promoteToCoHost"}
    /\ room.host = Me
    /\ InSeq(last.target, room.speakers)

\* C20: the kick command is sent only when the local user is the host, or is
\* a co-host and the target is neither a co-host nor the host.
C20_KickOnlyByHostOrOverPlainUsers ==
    (last.ev = "modalClick" /\ "kickUser" \in last.cmds)
        => \/ room.host = Me
           \/ /\ Me \in room.coHosts
              /\ last.target \notin room.coHosts
              /\ last.target # room.host

\* A co-host kicked a participant who is not a moderator, in a room that has
\* another co-host or a host to be protected.
C20_Witness ==
    /\ last.ev = "modalClick" /\ last.cmds = {"kickUser"}
    /\ room.host # Me /\ Me \in room.coHosts
    /\ last.target \notin room.coHosts \cup {room.host}

\* ------------------------------------------------ moderation commands
ModerationCommands ==
    {"inviteToSpeak", "moveToAudience", "promoteToCoHost", "demoteCoHost",
     "muteSpeaker", "unmuteSpeaker", "kickUser"}

\* C21: a moderation command is sent only when the room document the screen
\* holds at the click, the latest one applied, makes the local user the host
\* or a co-host; while it does not, the screen offers no moderation command
\* at all, so an intent of a user who has lost the role sends nothing and
\* reports nothing.
C21_CommandsOnlyByModerators ==
    /\ (last.cmds \cap ModerationCommands # {}) => IsAdmin(room)
    /\ (room # NoRoom /\ ~IsAdmin(room))
           => /\ ModalButtons(variant, room, selectedParticipant) = {}
              /\ \A userId \in {Me, Peer, Third} :
                     ~(variant = "basic" /\ InviteOffered(room, userId))

\* A co-host who is not the host sent a command from the modal.
C21_Witness ==
    /\ last.ev = "modalClick" /\ last.cmds # {}
    /\ room.host # Me /\ Me \in room.coHosts

\* C22: promoteToCoHost and demoteCoHost are sent only when the room document
\* the screen holds makes the local user the host; a co-host or any other
\* participant never sends them.
C22_PromoteDemoteByHostOnly ==
    (last.cmds \cap {"promoteToCoHost", "demoteCoHost"} # {}) => room.host = Me

\* The host demoted a co-host.
C22_Witness ==
    /\ last.ev = "modalClick" /\ last.cmds = {"demoteCoHost"}
    /\ room.host = Me
    /\ last.target \in room.coHosts

\* C23: moveToAudience is sent only by the host, or by a co-host for a target
\* that is a speaker and no co-host; it is never sent for the host, and never
\* by a co-host for another co-host.
C23_MoveToAudienceActorAndTarget ==
    ("moveToAudience" \in last.cmds)
        => /\ \/ room.host = Me
              \/ /\ Me \in room.coHosts
                 /\ InSeq(last.target, room.speakers)
                 /\ last.target \notin room.coHosts
           /\ last.target # room.host
           /\ (room.host # Me /\ Me \in room.coHosts) => last.target \notin room.coHosts

\* A co-host moved a plain speaker to the audience while the room had another
\* co-host.
C23_Witness ==
    /\ last.ev = "modalClick" /\ last.cmds = {"moveToAudience"}
    /\ room.host # Me /\ Me \in room.coHosts
    /\ InSeq(last.target, room.speakers)

\* C24: inviteToSpeak is sent only for a target that the room document the
\* screen holds lists in the raised-hand set and not among the speakers, on
\* every screen.
C24_InviteOnlyRaisedHands ==
    ("inviteToSpeak" \in last.cmds)
        => (last.target \in room.raisedHands /\ ~InSeq(last.target, room.speakers))

\* C25: raiseHand is sent only for the local user, only while the room
\* document the screen holds does not list the local user among the
\* speakers, and not when it lists the local user in the raised-hand set
\* already.
C25_RaiseHandOnlyByPlainListener ==
    ("raiseHand" \in last.cmds)
        => /\ last.target = Me
           /\ ~InSeq(Me, room.speakers)
           /\ Me \notin room.raisedHands

\* ------------------------------------------------ leaving the room
\* C26: a click that leaves the room (it signals exit, or it ends the room)
\* sends endRoom if and only if the room document the screen holds makes the
\* local user the host.
C26_EndRoomIffHostLeaves ==
    (last.ev \in {"leaveClick", "backClick"} /\ (last.exit \/ last.cmds # {}))
        => (("endRoom" \in last.cmds) <=> IsHost(room))

\* Every a of the sequence comes before every b.
Before(a, b, s) ==
    \A i, j \in 1..Len(s) : (s[i] = a /\ s[j] = b) => i < j

\* C27: when the screen is left, its cleanup unpublishes the local track that
\* is published, then stops and releases the local tracks, then leaves the
\* transport session, in this order, and it unsubscribes from the store.
C27_LeaveUnpublishesStopsLeaves ==
    [][(last'.ev = "unmount")
          => LET s == last'.seq
             IN  /\ InSeq("unsubscribe", s)
                 /\ AudioPublished
                       => (InSeq("unpublish", s) /\ Before("unpublish", "stop", s))
                 /\ localAudioTrack # 0 => (InSeq("stop", s) /\ InSeq("close", s))
                 /\ AnyJoined => InSeq("leave", s)
                 /\ Before("stop", "leave", s)
                 /\ Before("close", "leave", s)]_vars

\* C28: when a remote participant unpublishes or leaves, the screen drops it
\* from its remote users when it leaves and, if that participant was the
\* active speaker, clears the active speaker in the same step.
C28_RemoteGoneClearsActiveSpeaker ==
    [][(last'.ev \in {"userUnpublished", "userLeft"})
          => /\ (variant = "video" /\ last'.ev = "userLeft")
                    => last'.target \notin remoteUsers'
             /\ activeSpeakerId = last'.target => activeSpeakerId' = NoId]_vars

\* ------------------------------------------------ configuration
\* C29: when the application id is missing, no step requests a token or
\* invokes the transport join, and the mount surfaces an error and signals
\* exit, on every screen.
C29_MissingAppIdPreventsEntry ==
    ~appId => /\ last.calls \cap {"token", "join"} = {}
              /\ last.ev = "mount" => (last.msg # "" /\ last.exit)

\* ------------------------------------------------ role changes
\* C30: a snapshot that changes whether the local user is a speaker, applied
\* to a screen that holds a room document, leaves the transport session
\* alone: the step calls neither leave nor join, requests no token, and sends
\* no leaveRoom or joinRoom command to the store.
C30_RoleChangeOnlyPublishes ==
    [][(/\ last'.ev = "snapshot"
        /\ room # NoRoom /\ room' # NoRoom
        /\ InSeq(Me, room.speakers) # InSeq(Me, room'.speakers))
          => /\ last'.calls \cap {"leave", "join", "token"} = {}
             /\ last'.cmds \cap {"leaveRoom", "joinRoom"} = {}]_vars

\* ------------------------------------------------ room-open
\* C31: the transport join is called only by the step in which the token
\* request returned a credential, with that credential and with the uid the
\* token was requested for, and the uid of both calls is
\* stringToNumericUid(currentUser.id).
C31_TokenThenJoinWithMappedUid ==
    /\ "token" \in last.calls => last.uid = stringToNumericUid(Me)
    /\ "join" \in last.calls
          => /\ last.ev = "tokenDone" /\ last.ok
             /\ last.token = TokenFor(last.uid)
             /\ last.uid = stringToNumericUid(Me)

\* ------------------------------------------------ remote publications
\* C32: when a remote participant publishes a track the handler calls
\* subscribe and nothing else; playback is started only by the step in which
\* a subscribe call for an audio track has completed successfully, so never
\* before the completion and never for a video track.
C32_PlayOnlyAfterAudioSubscribe ==
    /\ last.ev = "userPublished" => last.calls = {"subscribe"}
    /\ "play" \in last.calls
          => (last.ev = "subscribeDone" /\ last.ok /\ last.mediaType = "audio")
    /\ (last.ev = "subscribeDone" /\ last.ok /\ last.mediaType = "audio")
          => "play" \in last.calls

\* The subscribe call for a remote participant's audio track completed and
\* the playback was started.
C32_Witness ==
    /\ last.ev = "subscribeDone" /\ last.ok
    /\ last.mediaType = "audio" /\ last.calls = {"play"}
    /\ last.target \in RemoteIds

\* ------------------------------------------------ failure classification
\* C33: the catch block of the video room reports exactly one cause: device
\* not found for the name NotFoundError or DevicesNotFoundError or the code
\* DEVICE_NOT_FOUND, else permission denied for the name NotAllowedError or
\* the code PERMISSION_DENIED, else unknown ("start"); device not found wins
\* when both match.
C33_FailureClassifiedOnce ==
    calc.op = "caught"
        => LET e == calc.error
               notFound == e.name \in {"NotFoundError", "DevicesNotFoundError"}
                               \/ e.code = "DEVICE_NOT_FOUND"
               denied == e.name = "NotAllowedError" \/ e.code = "PERMISSION_DENIED"
           IN  /\ calc.cause \in {"notFound", "denied", "start"}
               /\ calc.cause = "notFound" <=> notFound
               /\ calc.cause = "denied" <=> (denied /\ ~notFound)
               /\ calc.cause = "start" <=> (~denied /\ ~notFound)

\* An error that matches both causes was reported as device not found.
C33_Witness ==
    /\ calc.op = "caught"
    /\ calc.error.name = "NotAllowedError" /\ calc.error.code = "DEVICE_NOT_FOUND"
    /\ calc.cause = "notFound"

\* ------------------------------------------------ self-mute
\* C34: whenever the ref holds a local audio track that is open, the muted
\* setting of the track equals isMuted (toggleMute is one step here, so no
\* toggle is ever in flight), also while the publish of the track is still in
\* flight.
C34_MutedFlagMatchesTrack ==
    (localAudioTrack # 0 /\ tracks[localAudioTrack].state = "open")
        => tracks[localAudioTrack].muted = isMuted

\* ------------------------------------------------ overlapping publishes
OpenTracks == { t \in DOMAIN tracks : tracks[t].state = "open" }

\* C35: at most one local audio track is created and not yet closed at any
\* time, and every open track that a client has published is the one the ref
\* holds, so that it can be unpublished later.
C35_AtMostOneOpenTrack ==
    /\ Cardinality(OpenTracks) <= 1
    /\ \A r \in 1..Len(runs) : \A t \in runs[r].pubs \cap OpenTracks :
           t = localAudioTrack

\* Some client of this screen has an open local track published.
SomethingPublished ==
    \E r \in 1..Len(runs) : \E t \in runs[r].pubs : tracks[t].state = "open"

\* C36: once all the operations in flight have completed, on a screen with a
\* publishAudio effect, local audio is published only if the room document
\* the screen holds, the latest one applied, lists the local user among the
\* speakers.
C36_ListenerNotPublishedAtRest ==
    (/\ variant \in {"moderated", "mapped"}
     /\ mounted = "mounted"
     /\ Quiescent
     /\ SomethingPublished)
        => IsSpeaker(room) = "true"


\* C37: the transport publish call is made only when the join of the same
\* client has completed.
C37_PublishOnlyAfterJoin ==
    "publish" \in last.calls => Connected(runs, CurClient)


\* C38: on the screen with the optimistic raised-hand flag, when raiseHand
\* has just been sent and the next snapshot does not yet list the local user
\* among the raised hands, the raise-hand control stays disabled, so that no
\* second raiseHand can be sent for the pending request.
C38_RaiseStaysPending ==
    [][(/\ variant = "moderated"
        /\ last.ev = "raiseHand" /\ "raiseHand" \in last.cmds
        /\ last'.ev = "snapshot"
        /\ Me \notin room'.raisedHands)
           => ~(Rendered' /\ RaiseHandButton(variant)')]_vars


MaxUidLen == 3    \* code units of a uid parameter

\* The code units of the uid parameters: "1", "2", "a", "-" and " ".
UidUnits == {49, 50, 97, 45, 32}

UidTexts == UNION { [1..n -> UidUnits] : n \in 0..MaxUidLen }

\* The index of the first code unit of s at or after i that is not white
\* space, Len(s) + 1 if there is none.
RECURSIVE SkipSpaces(_, _)
SkipSpaces(s, i) ==
    IF i <= Len(s) /\ s[i] \in {9, 10, 11, 12, 13, 32} THEN SkipSpaces(s, i + 1) ELSE i

\* The index after the run of digits of s that starts at i.
RECURSIVE SkipDigits(_, _)
SkipDigits(s, i) ==
    IF i <= Len(s) /\ s[i] \in 48..57 THEN SkipDigits(s, i + 1) ELSE i

\* The value of the digits s[i..j-1], read in base 10 after acc.
RECURSIVE DigitsValue(_, _, _, _)
DigitsValue(s, i, j, acc) ==
    IF i >= j THEN acc ELSE DigitsValue(s, i + 1, j, acc * 10 + (s[i] - 48))

\* parseInt(uidStr, 10): leading white space is skipped, one sign is
\* accepted, then the longest run of digits is read and whatever follows it
\* is ignored; NaN if there is no digit at that place.
ParseInt(s) ==
    LET b == SkipSpaces(s, 1)
        signed == b <= Len(s) /\ s[b] \in {43, 45}
        d == IF signed THEN b + 1 ELSE b
        e == SkipDigits(s, d)
        value == DigitsValue(s, d, e, 0)
    IN  IF e = d THEN [nan |-> TRUE, value |-> 0, end |-> e]
        ELSE [nan |-> FALSE,
              value |-> IF signed /\ s[b] = 45 THEN 0 - value ELSE value,
              end |-> e]

\* The text is an integer: an optional sign and digits, and nothing after
\* them.
IsIntegerText(s) ==
    LET p == ParseInt(s) IN ~p.nan /\ p.end = Len(s) + 1

\* !value of a query parameter: null and the empty string are falsy.
Missing(param) == ~param.present \/ param.text = <<>>

\* handler(request); built tells whether the token library returned a token
\* or threw.
Respond(req, built) ==
    IF ~req.appId \/ ~req.appCertificate
    THEN [NoResponse EXCEPT !.status = 500, !.error = "credentials"]
    ELSE IF Missing(req.channelName) \/ Missing(req.uid)
    THEN [NoResponse EXCEPT !.status = 400, !.error = "required"]
    ELSE LET uid == ParseInt(req.uid.text)
         IN  IF uid.nan
             THEN [NoResponse EXCEPT !.status = 400, !.error = "integer"]
             ELSE IF built
             THEN [NoResponse EXCEPT !.status = 200, !.rtcToken = TRUE,
                                     !.uid = uid.value]
             ELSE [NoResponse EXCEPT !.status = 500, !.error = "generate"]

\* The requests, to either handler of the endpoint: the one that builds the
\* token with RtcTokenBuilder.buildTokenWithUid and the one that builds it
\* with AccessToken.
Requests ==
    [handler : {"builder", "accessToken"}, appId : BOOLEAN, appCertificate : BOOLEAN,
     channelName : {NoParam, Param(<<>>), Param(<<114>>)},
     uid : {NoParam} \cup { Param(t) : t \in UidTexts }]

InitToken ==
    /\ variant = "video"
    /\ NoSession
    /\ \E req \in Requests : calc = [NoCalc EXCEPT !.op = "request", !.request = req]

\* The endpoint answers the request.
Handler(built) ==
    /\ calc.op = "request"
    /\ calc' = [calc EXCEPT !.op = "answered",
                            !.response = Respond(calc.request, built)]
    /\ UNCHANGED session

NextToken == \E built \in BOOLEAN : Handler(built)

SpecToken == InitToken /\ [][NextToken]_vars

\* C40: the token endpoint answers 200, with a token, only when both
\* credentials are configured, channelName and uid are present and uid is an
\* integer; it answers a uid that is not an integer, a value with trailing
\* non-digits included, with 400 and no token, and missing credentials with
\* 500.
C40_TokenOnlyForIntegerUid ==
    calc.op = "answered"
        => LET req == calc.request
               res == calc.response
               configured == req.appId /\ req.appCertificate
               present == ~Missing(req.channelName) /\ ~Missing(req.uid)
           IN  /\ res.rtcToken <=> res.status = 200
               /\ res.status = 200
                      => configured /\ present /\ IsIntegerText(req.uid.text)
               /\ (configured /\ present /\ ~IsIntegerText(req.uid.text))
                      => res.status = 400
               /\ ~configured => res.status = 500

====
